---- MODULE Spec2Model ----
(***************************************************************************)
(* Model of bin/changelog.py: SemanticVersion, ChangeGroup, ChangeLog      *)
(* (construction, get_latest_version, print_changelog) and                 *)
(* ChangeLog.parse_changelog.                                              *)
(*                                                                         *)
(* Datetimes are modelled as integers 1..MaxTime, with datetime.max as the *)
(* integer just above them.  A Change carries an id that stands for the    *)
(* identity of the Python object (its position in the caller's list).      *)
(***************************************************************************)
EXTENDS Integers, Sequences, FiniteSets, TLC

\* ------------------------------------------------------------------ bounds
MaxTime == 2
MaxReleases == 3
MaxChanges == 2
MaxVersion == 1
MaxDocReleases == 1
MaxDocChanges == 2

DatetimeMax == MaxTime + 1
Times == 1..DatetimeMax

\* ------------------------------------------------------- enums and records
MAJOR == "major"
MINOR == "minor"
PATCH == "patch"
INTERNAL == "internal"
ChangeClass == {MAJOR, MINOR, PATCH, INTERNAL}

PUBLIC == "public"
PRIVATE == "private"
ReleaseClass == {PUBLIC, PRIVATE}

Release(release_datetime, release_class) ==
    [datetime |-> release_datetime, release_class |-> release_class]

Change(id, change_datetime, change_class, change_type) ==
    [id |-> id, datetime |-> change_datetime, change_class |-> change_class,
     change_type |-> change_type]

NoRelease == Release(0, "none")

\* ---------------------------------------------------------- SemanticVersion
SemanticVersion(major, minor, patch) ==
    [major |-> major, minor |-> minor, patch |-> patch]

increment_major_keep(v) == SemanticVersion(v.major + 1, v.minor, v.patch)

increment_major(v) == SemanticVersion(v.major + 1, 0, 0)

increment_minor(v) == SemanticVersion(v.major, v.minor + 1, 0)

increment_patch(v) == SemanticVersion(v.major, v.minor, v.patch + 1)

\* ------------------------------------------------------------- ChangeGroup
NoFlags == [major |-> FALSE, minor |-> FALSE, patch |-> FALSE]

\* one iteration of the scan over the changes (the if/elif chain)
ScanChange(flags, change) ==
    IF change.change_class = MAJOR THEN [flags EXCEPT !.major = TRUE]
    ELSE IF change.change_class = MINOR THEN [flags EXCEPT !.minor = TRUE]
    ELSE IF change.change_class = PATCH THEN [flags EXCEPT !.patch = TRUE]
    ELSE flags

RECURSIVE ScanChanges(_, _)
ScanChanges(flags, changes) ==
    IF changes = <<>> THEN flags
    ELSE ScanChanges(ScanChange(flags, Head(changes)), Tail(changes))

MajorUpdate_always_major(release, previous_semantic_version) ==
    increment_major(previous_semantic_version)

\* the branch taken when a major change was found
MajorUpdate(release, previous_semantic_version) ==
    IF previous_semantic_version.major = 0 /\ release.release_class = PRIVATE
    THEN increment_minor(previous_semantic_version)
    ELSE increment_major(previous_semantic_version)

ApplyUpdate_patch_first(flags, release, previous_semantic_version) ==
    IF flags.patch THEN increment_patch(previous_semantic_version)
    ELSE IF flags.minor THEN increment_minor(previous_semantic_version)
    ELSE IF flags.major THEN MajorUpdate(release, previous_semantic_version)
    ELSE previous_semantic_version

\* the if/elif chain over the three flags
ApplyUpdate(flags, release, previous_semantic_version) ==
    IF flags.major THEN MajorUpdate(release, previous_semantic_version)
    ELSE IF flags.minor THEN increment_minor(previous_semantic_version)
    ELSE IF flags.patch THEN increment_patch(previous_semantic_version)
    ELSE previous_semantic_version

ChangeGroup(release, changes, previous_semantic_version) ==
    [release |-> release,
     changes |-> changes,
     semantic_version |->
        ApplyUpdate(ScanChanges(NoFlags, changes), release, previous_semantic_version)]

\* ------------------------------------------------------------ list helpers
\* list.sort(key=attrgetter('datetime')): a stable sort by datetime
RECURSIVE InsertSorted(_, _)
InsertSorted(sorted, x) ==
    IF sorted = <<>> THEN <<x>>
    ELSE IF Head(sorted).datetime <= x.datetime
         THEN <<Head(sorted)>> \o InsertSorted(Tail(sorted), x)
         ELSE <<x>> \o sorted

RECURSIVE SortByDatetime(_)
SortByDatetime(list) ==
    IF list = <<>> THEN <<>>
    ELSE InsertSorted(SortByDatetime(SubSeq(list, 1, Len(list) - 1)), list[Len(list)])

\* ------------------------------------------------------------------- state
VARIABLES
    pc,               \* "start", "loop" (inside ChangeLog.__init__), "built", "raised",
                      \* "group" (a ChangeGroup was constructed on its own),
                      \* "exited" (the script has called exit)
    error,            \* name of the exception that ended the call, or "none"
    arg_releases,     \* the release list as the caller passed it
    arg_changes,      \* the change list as the caller passed it
    releases,         \* the release list, sorted, consumed by pop(0)
    changes,          \* the change list, sorted
    idx,              \* position of the for loop in changes
    current_version,
    current_release,
    current_changes,
    change_groups,    \* self.change_groups
    ret,              \* last value returned by get_latest_version, <<>> before
    stdout,           \* lines written by print_changelog
    doc,              \* the document handed to parse_changelog
    group,            \* a ChangeGroup constructed on its own
    group_previous,   \* the previous_semantic_version it was constructed from
    command,          \* args.command of a run of the script, "" outside a run
    exit_status       \* <<status>> once the script has called exit, <<>> before

vars == <<pc, error, arg_releases, arg_changes, releases, changes, idx,
          current_version, current_release, current_changes, change_groups,
          ret, stdout, doc, group, group_previous, command, exit_status>>

mainVars == <<command, exit_status>>

buildVars == <<arg_releases, arg_changes, releases, changes, idx,
               current_version, current_release, current_changes, change_groups>>

NoDoc ==
    [wellformed |-> FALSE,
     datetime_format |-> [has |-> FALSE, value |-> ""],
     utc_offset_hours |-> [has |-> FALSE, value |-> 0],
     releases |-> [has |-> FALSE, value |-> <<>>],
     change_types |-> [has |-> FALSE, value |-> [k \in ChangeClass |-> <<>>]],
     changes |-> [has |-> FALSE, value |-> <<>>]]
NoGroup == [release |-> NoRelease, changes |-> <<>>,
            semantic_version |-> SemanticVersion(0, 0, 0)]

Init ==
    /\ pc = "start"
    /\ error = "none"
    /\ arg_releases = <<>>
    /\ arg_changes = <<>>
    /\ releases = <<>>
    /\ changes = <<>>
    /\ idx = 0
    /\ current_version = SemanticVersion(0, 0, 0)
    /\ current_release = NoRelease
    /\ current_changes = <<>>
    /\ change_groups = <<>>
    /\ ret = <<>>
    /\ stdout = <<>>
    /\ doc = NoDoc
    /\ group = NoGroup
    /\ group_previous = SemanticVersion(0, 0, 0)
    /\ command = ""
    /\ exit_status = <<>>

\* ------------------------------------------------------------------ inputs
SeqsUpTo(S, n) == UNION {[1..k -> S] : k \in 0..n}

Releases == {Release(t, c) : t \in Times, c \in ReleaseClass}
ReleaseLists == SeqsUpTo(Releases, MaxReleases)

\* change lists as a caller builds them: the k-th object of the list has id k
ChangeLists ==
    {cs \in SeqsUpTo({Change(i, t, c, "") : i \in 1..MaxChanges, t \in Times,
                                            c \in ChangeClass}, MaxChanges) :
        \A k \in 1..Len(cs) : cs[k].id = k}

Versions == {SemanticVersion(a, b, c) : a \in 0..MaxVersion, b \in 0..MaxVersion,
                                        c \in 0..MaxVersion}

\* ------------------------------------------------------ ChangeLog.__init__
\* list.insert(0, x)
InsertChange_append(list, change) == list \o <<change>>

InsertChange(list, change) == <<change>> \o list

InsertGroup_append(list, change_group) == list \o <<change_group>>

InsertGroup(list, change_group) == <<change_group>> \o list

\* current_changes = [] after a group is closed
ClearChanges_keep(list) == list

ClearChanges(list) == <<>>

\* the two sorts, the initial values and the first releases.pop(0)
Construct(rs, cs) ==
    /\ arg_releases' = rs
    /\ arg_changes' = cs
    /\ changes' = SortByDatetime(cs)
    /\ current_version' = SemanticVersion(0, 0, 0)
    /\ current_changes' = <<>>
    /\ change_groups' = <<>>
    /\ idx' = 1
    /\ IF rs = <<>>
       THEN /\ releases' = <<>>
            /\ current_release' = NoRelease
            /\ pc' = "raised"
            /\ error' = "IndexError"
       ELSE /\ releases' = Tail(SortByDatetime(rs))
            /\ current_release' = Head(SortByDatetime(rs))
            /\ pc' = "loop"
            /\ error' = "none"

\* ChangeLog(releases, changes) called by a client with lists of its own
ChangeLog_init ==
    /\ pc = "start"
    /\ \E rs \in ReleaseLists, cs \in ChangeLists : Construct(rs, cs)
    /\ UNCHANGED <<ret, stdout, doc, group, group_previous, mainVars>>

\* one iteration of "for change in changes"
LoopStep ==
    /\ pc = "loop"
    /\ idx <= Len(changes)
    /\ LET change == changes[idx]
           change_group == ChangeGroup(current_release, current_changes, current_version)
       IN  IF change.datetime > current_release.datetime
           THEN IF releases = <<>>
                THEN /\ pc' = "raised"
                     /\ error' = "IndexError"
                     /\ UNCHANGED <<releases, idx, current_version, current_release,
                                    current_changes, change_groups>>
                ELSE /\ current_release' = Head(releases)
                     /\ releases' = Tail(releases)
                     /\ current_version' = change_group.semantic_version
                     /\ change_groups' = InsertGroup(change_groups, change_group)
                     /\ current_changes' = InsertChange(ClearChanges(current_changes), change)
                     /\ idx' = idx + 1
                     /\ UNCHANGED <<pc, error>>
           ELSE /\ current_changes' = InsertChange(current_changes, change)
                /\ idx' = idx + 1
                /\ UNCHANGED <<pc, error, releases, current_version, current_release,
                               change_groups>>
    /\ UNCHANGED <<arg_releases, arg_changes, changes, ret, stdout, doc, group,
                   group_previous, mainVars>>

\* the insert after the loop; the constructor returns
LoopEnd ==
    /\ pc = "loop"
    /\ idx > Len(changes)
    /\ change_groups' = InsertGroup(change_groups,
                            ChangeGroup(current_release, current_changes, current_version))
    /\ pc' = "built"
    /\ UNCHANGED <<error, arg_releases, arg_changes, releases, changes, idx,
                   current_version, current_release, current_changes, ret, stdout,
                   doc, group, group_previous, mainVars>>

\* ------------------------------------------------------------------ queries
get_latest_version ==
    /\ pc = "built"
    /\ ret' = <<change_groups[1].semantic_version>>
    /\ UNCHANGED <<pc, error, buildVars, stdout, doc, group, group_previous, mainVars>>

HeaderLine(change_group) ==
    [kind |-> "header", version |-> change_group.semantic_version,
     datetime |-> change_group.release.datetime]

ChangeLine(change) ==
    [kind |-> "change", datetime |-> change.datetime, id |-> change.id,
     change_type |-> change.change_type]

RECURSIVE ChangeLines(_)
ChangeLines(list) ==
    IF list = <<>> THEN <<>>
    ELSE <<ChangeLine(Head(list))>> \o ChangeLines(Tail(list))

RECURSIVE GroupLines(_)
GroupLines(groups) ==
    IF groups = <<>> THEN <<>>
    ELSE <<HeaderLine(Head(groups))>> \o ChangeLines(Head(groups).changes)
         \o GroupLines(Tail(groups))

print_changelog ==
    /\ pc = "built"
    /\ stdout' = stdout \o GroupLines(change_groups)
    /\ Len(stdout) = 0
    /\ UNCHANGED <<pc, error, buildVars, ret, doc, group, group_previous, mainVars>>

\* ------------------------------------------------- ChangeGroup on its own
NewChangeGroup ==
    /\ pc = "start"
    /\ \E release \in Releases, cs \in ChangeLists, previous \in Versions :
          /\ group' = ChangeGroup(release, cs, previous)
          /\ group_previous' = previous
    /\ pc' = "group"
    /\ UNCHANGED <<error, buildVars, ret, stdout, doc, mainVars>>

\* --------------------------------------------------------- parse_changelog
CHANGELOG_KEY_RELEASES == "releases"
CHANGELOG_KEY_CHANGES == "changes"
CHANGELOG_KEY_UTC_OFFSET_HOURS == "utc offset hours"
CHANGELOG_KEY_CHANGE_TYPES == "change types"
CHANGELOG_KEY_DATETIME_FORMAT == "datetime format"
DEFAULT_DATETIME_FORMAT == "%Y-%m-%d %H:%M"

\* a top-level key of the document: whether it is there, and its value
Absent(value) == [has |-> FALSE, value |-> value]
Present(value) == [has |-> TRUE, value |-> value]

FormatError == {"MissingKeyFormatError", "InvalidDatetimeError", "InvalidChangeClassError",
                "InvalidChangeTypeError", "InvalidReleaseClassError",
                "InvalidJsonFormatError"}

\* datetime.strptime on the timestamp strings of the model's documents: the
\* datetime a string parses to under a format, 0 when it raises ValueError
SecondsFormat == "%Y-%m-%d %H:%M:%S"
TimeStrings == {"2023-08-30 00:00", "2023-08-31 0:00", "2023-08-30 0:00:00"}

strptime(string, datetime_format) ==
    IF datetime_format = DEFAULT_DATETIME_FORMAT
    THEN IF string = "2023-08-30 00:00" THEN 1
         ELSE IF string = "2023-08-31 0:00" THEN 2
         ELSE 0
    ELSE IF string = "2023-08-30 0:00:00" THEN 1 ELSE 0

\* ReleaseClass.get_from_value / ChangeClass.get_from_value
ReleaseClass_get_from_value_default(value) ==
    IF value \in ReleaseClass THEN value ELSE PRIVATE

ReleaseClass_get_from_value(value) ==
    IF value \in ReleaseClass THEN value ELSE "InvalidReleaseClassError"

ChangeClass_get_from_value(value) ==
    IF value \in ChangeClass THEN value ELSE "InvalidChangeClassError"

\* the datetime format the document selects
DatetimeFormat(d) ==
    IF ~d.datetime_format.has THEN DEFAULT_DATETIME_FORMAT ELSE d.datetime_format.value

\* first loop over the release keys: some key does not parse
ReleaseDatetimeInvalid(entries, datetime_format) ==
    \E k \in 1..Len(entries) : strptime(entries[k].key, datetime_format) = 0

\* second loop over the releases: the classes looked up, in order
RECURSIVE ParseReleases(_, _, _)
ParseReleases(entries, datetime_format, acc) ==
    IF entries = <<>> THEN [error |-> "none", list |-> acc]
    ELSE LET release_class == ReleaseClass_get_from_value(Head(entries).label)
         IN  IF release_class \notin ReleaseClass
             THEN [error |-> release_class, list |-> acc]
             ELSE ParseReleases(Tail(entries), datetime_format,
                      Append(acc, Release(strptime(Head(entries).key, datetime_format),
                                          release_class)))

\* chain.from_iterable(change_type_definitions.values()): its length and its set
RECURSIVE TypeCount(_, _)
TypeCount(definitions, keys) ==
    IF keys = {} THEN 0
    ELSE LET k == CHOOSE x \in keys : TRUE
         IN  Len(definitions[k]) + TypeCount(definitions, keys \ {k})

TypeSet(definitions) ==
    UNION {{definitions[k][i] : i \in 1..Len(definitions[k])} : k \in DOMAIN definitions}

\* len(change_types) != len(set(change_types))
TypesDuplicated(definitions) ==
    TypeCount(definitions, DOMAIN definitions) # Cardinality(TypeSet(definitions))

ClassesInvalid_subset(definitions) == ~(DOMAIN definitions \subseteq ChangeClass)

\* change_class_values != valid_class_values
ClassesInvalid(definitions) == DOMAIN definitions # ChangeClass

\* the search for the class of a change type.  It runs only on a catalog
\* without a repeated type, so at most one key holds the type and the order
\* in which the dict is walked does not matter.
FindChangeClass(definitions, change_type) ==
    LET holders == {k \in DOMAIN definitions :
                       \E i \in 1..Len(definitions[k]) : definitions[k][i] = change_type}
    IN  IF holders = {} THEN "None"
        ELSE ChangeClass_get_from_value(CHOOSE k \in holders : TRUE)

\* inner loop over the change definitions of one timestamp
RECURSIVE ParseDefinitions(_, _, _, _)
ParseDefinitions(defs, change_datetime, definitions, acc) ==
    IF defs = <<>> THEN [error |-> "none", list |-> acc]
    ELSE LET found_change_class == FindChangeClass(definitions, Head(defs))
         IN  IF found_change_class = "None"
             THEN [error |-> "InvalidChangeTypeError", list |-> acc]
             ELSE ParseDefinitions(Tail(defs), change_datetime, definitions,
                      Append(acc, Change(Len(acc) + 1, change_datetime,
                                         found_change_class, Head(defs))))

\* outer loop over the timestamps of 'changes'
RECURSIVE ParseChanges(_, _, _, _)
ParseChanges(entries, datetime_format, definitions, acc) ==
    IF entries = <<>> THEN [error |-> "none", list |-> acc]
    ELSE LET change_datetime == strptime(Head(entries).key, datetime_format)
         IN  IF change_datetime = 0
             THEN [error |-> "InvalidDatetimeError", list |-> acc]
             ELSE LET r == ParseDefinitions(Head(entries).defs, change_datetime,
                                            definitions, acc)
                  IN  IF r.error # "none" THEN r
                      ELSE ParseChanges(Tail(entries), datetime_format, definitions,
                                        r.list)

Raise(name) == [error |-> name, releases |-> <<>>, changes |-> <<>>]

\* the part of parse_changelog from 'change types' on
ParseCatalogAndChanges(d, rs) ==
    IF ~d.change_types.has THEN Raise("MissingKeyFormatError")
    ELSE IF TypesDuplicated(d.change_types.value) THEN Raise("InvalidChangeTypeError")
    ELSE IF ClassesInvalid(d.change_types.value) THEN Raise("InvalidChangeClassError")
    ELSE IF ~d.changes.has THEN Raise("KeyError")
    ELSE LET r == ParseChanges(d.changes.value, DatetimeFormat(d),
                               d.change_types.value, <<>>)
         IN  IF r.error # "none" THEN Raise(r.error)
             ELSE [error |-> "none", releases |-> rs, changes |-> r.list]

\* parse_changelog up to the call of the constructor: the exception it raises,
\* or the two lists it hands to ChangeLog(releases, changes)
Parse(d) ==
    IF ~d.wellformed THEN Raise("InvalidJsonFormatError")
    ELSE IF ~d.utc_offset_hours.has THEN Raise("MissingKeyFormatError")
    ELSE LET synthetic == <<Release(DatetimeMax, PRIVATE)>>
         IN  IF ~d.releases.has THEN ParseCatalogAndChanges(d, synthetic)
             ELSE IF ReleaseDatetimeInvalid(d.releases.value, DatetimeFormat(d))
                  THEN Raise("InvalidDatetimeError")
                  ELSE LET r == ParseReleases(d.releases.value, DatetimeFormat(d),
                                              synthetic)
                       IN  IF r.error # "none" THEN Raise(r.error)
                           ELSE ParseCatalogAndChanges(d, r.list)

\* the documents of the model
DistinctKeys(entries) ==
    \A i, j \in 1..Len(entries) : i # j => entries[i].key # entries[j].key

ReleaseLabels == {"public", "private", "external"}
DocReleases ==
    {es \in SeqsUpTo([key : {"2023-08-31 0:00", "2023-08-30 0:00:00"},
                      label : ReleaseLabels], MaxDocReleases) : DistinctKeys(es)}

TypeLists == {<<>>, <<"valid">>, <<"other">>, <<"valid", "valid">>}
ClassKeySets == {ChangeClass,
                 {"major", "minor", "subminor", "internal"},
                 {"major", "minor", "internal"}}
Catalogs == UNION {[ks -> TypeLists] : ks \in ClassKeySets}

DefinitionLists == {<<>>, <<"valid">>, <<"invalid">>}
DocChanges ==
    {es \in SeqsUpTo([key : TimeStrings, defs : DefinitionLists], MaxDocChanges) :
        DistinctKeys(es)}

EmptyCatalog == [k \in ChangeClass |-> <<>>]

Optional(values, default) == {Absent(default)} \cup {Present(v) : v \in values}

\* a text that json.loads rejects has no keys at all
Malformed == NoDoc

Docs ==
    [wellformed : {TRUE},
     datetime_format : Optional({SecondsFormat}, ""),
     utc_offset_hours : Optional({9}, 0),
     releases : Optional(DocReleases, <<>>),
     change_types : Optional(Catalogs, EmptyCatalog),
     changes : Optional(DocChanges, <<>>)]
    \cup {Malformed}

parse_changelog ==
    /\ pc = "start"
    /\ \E d \in Docs :
          /\ doc' = d
          /\ LET r == Parse(d)
             IN  IF r.error # "none"
                 THEN /\ pc' = "raised"
                      /\ error' = r.error
                      /\ UNCHANGED buildVars
                 ELSE Construct(r.releases, r.changes)
    /\ UNCHANGED <<ret, stdout, group, group_previous, mainVars>>

\* ---------------------------------------------------------------- __main__
CMD_INIT == "init"
CMD_CALC == "calc"
CMD_PRINT == "print"

ExitStatus ==
    [SUCCESS |-> 0, UNSUPPORTED_PYTHON_VERSION_ERROR |-> 1, FORMAT_ERROR |-> 2,
     CHANGELOG_ALREADY_EXISTS_ERROR |-> 3, ARGUMENT_ERROR |-> 4, UNEXPECTED_ERROR |-> 99]

\* generate_initial_changelog_data: the document 'init' writes; the clock
\* reading is one of the timestamps of the model
GeneratedDocument ==
    [wellformed |-> TRUE,
     datetime_format |-> Present(DEFAULT_DATETIME_FORMAT),
     utc_offset_hours |-> Present(0),
     releases |-> Absent(<<>>),
     change_types |->
        Present([k \in ChangeClass |->
                    IF k = MAJOR THEN <<"specification change", "!!!forced major update">>
                    ELSE IF k = MINOR THEN <<"new feature", "!!!forced minor update">>
                    ELSE IF k = PATCH THEN <<"bug fix", "performance improvement",
                                             "!!!forced patch update">>
                    ELSE <<"refactoring", "others">>]),
     changes |-> Present(<<[key |-> "2023-08-30 00:00", defs |-> <<"others">>]>>)]

\* the except clauses of the script, in their order.  json.JSONDecodeError is
\* the only format error they name; the FormatError classes have no clause of
\* their own and reach "except Exception".
HandlerStatus(name) ==
    IF name = "JSONDecodeError" THEN ExitStatus.FORMAT_ERROR
    ELSE IF name = "ChangeLogAlreadyExistsError"
         THEN ExitStatus.CHANGELOG_ALREADY_EXISTS_ERROR
    ELSE IF name = "ArgumentError" THEN ExitStatus.ARGUMENT_ERROR
    ELSE ExitStatus.UNEXPECTED_ERROR

\* the script run without a subcommand: args has no 'command'
main_no_command ==
    /\ pc = "start"
    /\ command' = "missing"
    /\ pc' = "raised"
    /\ error' = "ArgumentError"
    /\ UNCHANGED <<buildVars, ret, stdout, doc, group, group_previous, exit_status>>

\* 'init': initialize_changelog, then exit(SUCCESS)
main_init ==
    /\ pc = "start"
    /\ command' = CMD_INIT
    /\ \E exists \in BOOLEAN :
          IF exists
          THEN /\ pc' = "raised"
               /\ error' = "ChangeLogAlreadyExistsError"
               /\ UNCHANGED <<doc, exit_status>>
          ELSE /\ doc' = GeneratedDocument
               /\ pc' = "exited"
               /\ exit_status' = <<ExitStatus.SUCCESS>>
               /\ UNCHANGED error
    /\ UNCHANGED <<buildVars, ret, stdout, group, group_previous>>

\* 'calc' and 'print': the file is read and handed to parse_changelog
main_read ==
    /\ pc = "start"
    /\ \E cmd \in {CMD_CALC, CMD_PRINT} : command' = cmd
    /\ \E exists \in BOOLEAN :
          IF ~exists
          THEN /\ pc' = "raised"
               /\ error' = "FileNotFoundError"
               /\ UNCHANGED <<doc, buildVars>>
          ELSE \E d \in Docs :
                  /\ doc' = d
                  /\ LET r == Parse(d)
                     IN  IF r.error # "none"
                         THEN /\ pc' = "raised"
                              /\ error' = r.error
                              /\ UNCHANGED buildVars
                         ELSE Construct(r.releases, r.changes)
    /\ UNCHANGED <<ret, stdout, group, group_previous, exit_status>>

VersionLine(version) == [kind |-> "version", version |-> version]

\* print_latest_version or print_changelog on the ChangeLog, then exit(SUCCESS)
main_output ==
    /\ pc = "built"
    /\ command \in {CMD_CALC, CMD_PRINT}
    /\ stdout' = IF command = CMD_CALC
                 THEN stdout \o <<VersionLine(change_groups[1].semantic_version)>>
                 ELSE stdout \o GroupLines(change_groups)
    /\ exit_status' = <<ExitStatus.SUCCESS>>
    /\ pc' = "exited"
    /\ UNCHANGED <<error, buildVars, ret, doc, group, group_previous, command>>

\* an exception reaches the except clauses: a message on standard error and
\* exit with the status of the clause
main_except ==
    /\ pc = "raised"
    /\ command # ""
    /\ exit_status' = <<HandlerStatus(error)>>
    /\ pc' = "exited"
    /\ UNCHANGED <<error, buildVars, ret, stdout, doc, group, group_previous, command>>

\* ------------------------------------------------------------------ helpers
Built == pc = "built"

GroupIndexes == 1..Len(change_groups)
ChangeIndexes(g) == 1..Len(change_groups[g].changes)

HasClass(list, class) == \E i \in 1..Len(list) : list[i].change_class = class

\* ---------------------------------------------------------------------- C1
\* C1: in a built ChangeLog every change of a group has a timestamp <= the
\* timestamp of the group's release and > the timestamp of the release of the
\* next-older group.
C1_Containment ==
    Built =>
        \A g \in GroupIndexes : \A j \in ChangeIndexes(g) :
            /\ change_groups[g].changes[j].datetime <= change_groups[g].release.datetime
            /\ g < Len(change_groups) =>
                  change_groups[g].changes[j].datetime > change_groups[g + 1].release.datetime

\* ---------------------------------------------------------------------- C2
Places(change) ==
    {<<g, j>> \in GroupIndexes \X (1..Len(arg_changes)) :
        j \in ChangeIndexes(g) /\ change_groups[g].changes[j] = change}

\* C2: in a built ChangeLog the groups' change lists partition the input
\* change list: every input change is at exactly one place of exactly one
\* group, and every change of a group is an input change.
C2_Partition ==
    Built =>
        /\ \A k \in 1..Len(arg_changes) : Cardinality(Places(arg_changes[k])) = 1
        /\ \A g \in GroupIndexes : \A j \in ChangeIndexes(g) :
              /\ j <= Len(arg_changes)
              /\ \E k \in 1..Len(arg_changes) : change_groups[g].changes[j] = arg_changes[k]

C2_Witness ==
    /\ Built
    /\ Len(arg_changes) >= 2
    /\ \E g1, g2 \in GroupIndexes :
          g1 # g2 /\ change_groups[g1].changes # <<>> /\ change_groups[g2].changes # <<>>

\* ---------------------------------------------------------------------- C3
ChangeLinesFollow(i) ==
    /\ i < Len(stdout)
    /\ stdout[i].kind = "change"
    /\ stdout[i + 1].kind = "change"

IsMajor(change) == change.change_class = MAJOR

\* C4: a ChangeGroup's version is its previous version after exactly one step
\* chosen by priority: a major step (major + 1 or, before 1.0, minor + 1) if a
\* Major change is present, else minor + 1 if a Minor change is, else
\* patch + 1 if a Patch change is, else no step; changes below a Major change
\* do not matter to the version.
C4_SeverityPriority ==
    pc = "group" =>
        LET prev == group_previous
            v == group.semantic_version
            major == HasClass(group.changes, MAJOR)
            minor == HasClass(group.changes, MINOR)
            patch == HasClass(group.changes, PATCH)
        IN  /\ major =>
                  /\ v \in {SemanticVersion(prev.major + 1, 0, 0),
                            SemanticVersion(prev.major, prev.minor + 1, 0)}
                  /\ v = ChangeGroup(group.release, SelectSeq(group.changes, IsMajor),
                                     prev).semantic_version
            /\ (~major /\ minor) => v = SemanticVersion(prev.major, prev.minor + 1, 0)
            /\ (~major /\ ~minor /\ patch) =>
                  v = SemanticVersion(prev.major, prev.minor, prev.patch + 1)
            /\ (~major /\ ~minor /\ ~patch) => v = prev

C4_Witness ==
    /\ pc = "group"
    /\ HasClass(group.changes, MAJOR)
    /\ HasClass(group.changes, PATCH)
    /\ group_previous.patch > 0

\* ---------------------------------------------------------------------- C5
\* C5: a ChangeGroup with a Major change has version (major, minor + 1, 0) if
\* the previous major is 0 and the release is private, and (major + 1, 0, 0)
\* in every other case.
C5_MajorRule ==
    (pc = "group" /\ HasClass(group.changes, MAJOR)) =>
        group.semantic_version =
            IF group_previous.major = 0 /\ group.release.release_class = PRIVATE
            THEN SemanticVersion(group_previous.major, group_previous.minor + 1, 0)
            ELSE SemanticVersion(group_previous.major + 1, 0, 0)

C5_Witness ==
    /\ pc = "group"
    /\ HasClass(group.changes, MAJOR)
    /\ group_previous.major = 0
    /\ group_previous.minor > 0
    /\ group.release.release_class = PRIVATE
    /\ group.semantic_version.major = 0

\* ---------------------------------------------------------------------- C6
Resets(older, newer) ==
    /\ newer.major > older.major => (newer.minor = 0 /\ newer.patch = 0)
    /\ newer.minor > older.minor => newer.patch = 0

ComponentWiseGeq(newer, older) ==
    /\ newer.major >= older.major
    /\ newer.minor >= older.minor
    /\ newer.patch >= older.patch

LexicographicGeq(newer, older) ==
    \/ newer.major > older.major
    \/ newer.major = older.major /\ newer.minor > older.minor
    \/ newer.major = older.major /\ newer.minor = older.minor /\ newer.patch >= older.patch

\* C6 as stated: from each group to the next-newer one the version does not
\* decrease in any component, and a component that increases resets the
\* components below it.
C6_ComponentWise ==
    Built =>
        \A g \in GroupIndexes :
            g < Len(change_groups) =>
                /\ ComponentWiseGeq(change_groups[g].semantic_version,
                                    change_groups[g + 1].semantic_version)
                /\ Resets(change_groups[g + 1].semantic_version,
                          change_groups[g].semantic_version)

\* C6 amended: from each group to the next-newer one the version does not
\* decrease in the lexicographic order of (major, minor, patch), and a
\* component that increases resets the components below it.
C6_Monotonic ==
    Built =>
        \A g \in GroupIndexes :
            g < Len(change_groups) =>
                /\ LexicographicGeq(change_groups[g].semantic_version,
                                    change_groups[g + 1].semantic_version)
                /\ Resets(change_groups[g + 1].semantic_version,
                          change_groups[g].semantic_version)

C6_Witness ==
    /\ Built
    /\ \E g \in GroupIndexes :
          /\ g < Len(change_groups)
          /\ change_groups[g].semantic_version.major
                > change_groups[g + 1].semantic_version.major
          /\ change_groups[g + 1].semantic_version.minor > 0

\* ---------------------------------------------------------------------- C7
\* the version ChangeGroup derives for group g from a previous version
Derived(g, previous) ==
    ChangeGroup(change_groups[g].release, change_groups[g].changes,
                previous).semantic_version

NewestFirst ==
    \A g \in GroupIndexes :
        g < Len(change_groups) =>
            change_groups[g].release.datetime >= change_groups[g + 1].release.datetime

VersionChain ==
    \A g \in GroupIndexes :
        change_groups[g].semantic_version =
            IF g = Len(change_groups) THEN Derived(g, SemanticVersion(0, 0, 0))
            ELSE Derived(g, change_groups[g + 1].semantic_version)

\* C7: in a built ChangeLog the groups are ordered newest release first, the
\* oldest group's version is derived from 0.0.0 and every other group's from
\* the version of the next-older group, what get_latest_version returned is
\* the version of the first group, and no step taken on a built ChangeLog
\* changes its groups.
C7_NewestFirstChain ==
    /\ [](Built => (/\ NewestFirst
                    /\ VersionChain
                    /\ ret # <<>> => ret[1] = change_groups[1].semantic_version))
    /\ [][Built => change_groups' = change_groups]_vars

C7_Witness ==
    /\ Built
    /\ ret # <<>>
    /\ Len(change_groups) = 3
    /\ change_groups[1].release.datetime > change_groups[2].release.datetime
    /\ change_groups[1].semantic_version # change_groups[2].semantic_version
    /\ change_groups[2].semantic_version # change_groups[3].semantic_version

\* ---------------------------------------------------------------------- C8
ChangeAfterEveryRelease ==
    \E k \in 1..Len(arg_changes) :
        \A r \in 1..Len(arg_releases) : arg_changes[k].datetime > arg_releases[r].datetime

SyntheticReleasePresent ==
    \E r \in 1..Len(arg_releases) : arg_releases[r].datetime = DatetimeMax

\* C8: a construction given a change later than every release ends in an
\* error and builds no ChangeLog, and a construction given the release with
\* the maximum timestamp never runs out of releases.
C8_Exhaustion ==
    /\ ChangeAfterEveryRelease => ~Built
    /\ SyntheticReleasePresent => pc # "raised"

\* ---------------------------------------------------------------------- C9
ReleasesValid(d) ==
    d.releases.has =>
        \A k \in 1..Len(d.releases.value) :
            /\ strptime(d.releases.value[k].key, DatetimeFormat(d)) # 0
            /\ d.releases.value[k].label \in ReleaseClass

\* the document gets as far as the checks of the 'change types' catalog
ReachesCatalog(d) ==
    /\ d.wellformed
    /\ d.utc_offset_hours.has
    /\ ReleasesValid(d)
    /\ d.change_types.has

Parsed == pc # "start" /\ doc # NoDoc

TypesOf(catalog, k) == {catalog[k][i] : i \in 1..Len(catalog[k])}

RepeatedAcross(catalog) ==
    \E k1, k2 \in DOMAIN catalog : k1 # k2 /\ TypesOf(catalog, k1) \cap TypesOf(catalog, k2) # {}

Repeated(catalog) ==
    \/ RepeatedAcross(catalog)
    \/ \E k \in DOMAIN catalog : \E i, j \in 1..Len(catalog[k]) :
          i # j /\ catalog[k][i] = catalog[k][j]

UnknownChangeType(d) ==
    /\ d.changes.has
    /\ \E k \in 1..Len(d.changes.value) : \E i \in 1..Len(d.changes.value[k].defs) :
          \A c \in DOMAIN d.change_types.value :
              d.changes.value[k].defs[i] \notin TypesOf(d.change_types.value, c)

CatalogAccepted(d) ==
    /\ error # "InvalidChangeClassError"
    /\ error = "InvalidChangeTypeError" => UnknownChangeType(d)

\* C9 as stated: a catalog with a type under two classes is rejected with
\* InvalidChangeTypeError, a catalog whose keys are not exactly the four
\* classes is rejected with InvalidChangeClassError, and a catalog with the
\* four keys and no repeated type is accepted.
C9_CatalogChecks ==
    (Parsed /\ ReachesCatalog(doc)) =>
        /\ RepeatedAcross(doc.change_types.value) =>
              (pc = "raised" /\ error = "InvalidChangeTypeError")
        /\ DOMAIN doc.change_types.value # ChangeClass =>
              (pc = "raised" /\ error = "InvalidChangeClassError")
        /\ (DOMAIN doc.change_types.value = ChangeClass /\ ~Repeated(doc.change_types.value))
              => CatalogAccepted(doc)

\* C9 amended: as stated, but a catalog whose keys are not exactly the four
\* classes is rejected with InvalidChangeClassError only when no type is
\* repeated in it.
C9_CatalogChecksInOrder ==
    (Parsed /\ ReachesCatalog(doc)) =>
        /\ RepeatedAcross(doc.change_types.value) =>
              (pc = "raised" /\ error = "InvalidChangeTypeError")
        /\ (DOMAIN doc.change_types.value # ChangeClass /\ ~Repeated(doc.change_types.value))
              => (pc = "raised" /\ error = "InvalidChangeClassError")
        /\ (DOMAIN doc.change_types.value = ChangeClass /\ ~Repeated(doc.change_types.value))
              => CatalogAccepted(doc)

C9_Witness ==
    /\ Parsed
    /\ ReachesCatalog(doc)
    /\ DOMAIN doc.change_types.value = {"major", "minor", "internal"}
    /\ ~Repeated(doc.change_types.value)
    /\ doc.change_types.value["major"] # <<>>
    /\ error = "InvalidChangeClassError"

\* --------------------------------------------------------------------- C10
\* everything the document holds is valid
OtherwiseValid(d) ==
    /\ d.wellformed
    /\ ReleasesValid(d)
    /\ d.change_types.has =>
          (DOMAIN d.change_types.value = ChangeClass /\ ~Repeated(d.change_types.value))
    /\ d.changes.has =>
          /\ \A k \in 1..Len(d.changes.value) :
                strptime(d.changes.value[k].key, DatetimeFormat(d)) # 0
          /\ d.change_types.has => ~UnknownChangeType(d)

RequiredKeyMissing(d) ==
    ~d.changes.has \/ ~d.change_types.has \/ ~d.utc_offset_hours.has

\* C10: an otherwise valid document without 'changes', 'change types' or
\* 'utc offset hours' is rejected with MissingKeyFormatError and no ChangeLog
\* is built from it.
C10_MissingKey ==
    (Parsed /\ OtherwiseValid(doc) /\ RequiredKeyMissing(doc)) =>
        (pc = "raised" /\ error = "MissingKeyFormatError")

\* --------------------------------------------------------------------- C11
DatetimeFormatError(d) ==
    \/ /\ d.releases.has
       /\ \E k \in 1..Len(d.releases.value) :
             strptime(d.releases.value[k].key, DatetimeFormat(d)) = 0
    \/ /\ d.changes.has
       /\ \E k \in 1..Len(d.changes.value) :
             strptime(d.changes.value[k].key, DatetimeFormat(d)) = 0

ReleaseLabelError(d) ==
    /\ d.releases.has
    /\ \E k \in 1..Len(d.releases.value) : d.releases.value[k].label \notin ReleaseClass

\* the errors that match the defects the document holds
MatchingErrors(d) ==
    {e \in FormatError :
        \/ e = "InvalidDatetimeError" /\ DatetimeFormatError(d)
        \/ e = "InvalidReleaseClassError" /\ ReleaseLabelError(d)
        \/ e = "InvalidChangeTypeError" /\ UnknownChangeType(d)}

\* the document has the keys parse_changelog reads and a valid catalog
KeysAndCatalogValid(d) ==
    /\ d.wellformed
    /\ d.utc_offset_hours.has
    /\ d.change_types.has
    /\ DOMAIN d.change_types.value = ChangeClass
    /\ ~Repeated(d.change_types.value)
    /\ d.changes.has

NothingComputed ==
    /\ change_groups = <<>>
    /\ current_changes = <<>>
    /\ current_release = NoRelease
    /\ current_version = SemanticVersion(0, 0, 0)
    /\ arg_releases = <<>>
    /\ arg_changes = <<>>

\* C11: a document with a timestamp key that does not parse, a release label
\* other than public and private, or a change type in no class's list ends
\* parse_changelog in a FormatError with no release or change handed to the
\* constructor and no group or version computed; when its keys and catalog
\* are valid the error is the one that matches a defect the document holds.
C11_FailFast ==
    (Parsed /\ MatchingErrors(doc) # {}) =>
        /\ pc = "raised"
        /\ error \in FormatError
        /\ NothingComputed
        /\ KeysAndCatalogValid(doc) => error \in MatchingErrors(doc)

C11_Witness ==
    /\ Parsed
    /\ KeysAndCatalogValid(doc)
    /\ MatchingErrors(doc) = {"InvalidReleaseClassError"}
    /\ doc.changes.value # <<>>
    /\ error = "InvalidReleaseClassError"
    /\ NothingComputed

\* --------------------------------------------------------------------- C12
Exited == pc = "exited"

\* C12: a run of calc or print that met a format error has written nothing
\* to standard output and exits with status 2, and a run exits with status
\* 99 only on an error that is no format error, no already-exists error and
\* no argument error.
C12_ExitCodes ==
    Exited =>
        /\ (command \in {CMD_CALC, CMD_PRINT} /\ error \in FormatError) =>
              (stdout = <<>> /\ exit_status = <<ExitStatus.FORMAT_ERROR>>)
        /\ exit_status = <<ExitStatus.UNEXPECTED_ERROR>> =>
              error \notin FormatError \cup {"ChangeLogAlreadyExistsError", "ArgumentError"}

\* ---------------------------------------------------------- specifications
Next == ChangeLog_init \/ LoopStep \/ LoopEnd \/ get_latest_version \/ print_changelog

Spec == Init /\ [][Next]_vars

NextGroup == NewChangeGroup

SpecGroup == Init /\ [][NextGroup]_vars

NextParse == parse_changelog \/ LoopStep \/ LoopEnd \/ get_latest_version \/ print_changelog

SpecParse == Init /\ [][NextParse]_vars

NextMain ==
    main_no_command \/ main_init \/ main_read \/ LoopStep \/ LoopEnd \/ main_output
    \/ main_except

SpecMain == Init /\ [][NextMain]_vars

====
